---- MODULE Spec2Model ----
(***************************************************************************)
(* Model of wasm-verifier/src/lib.rs: the ProofData record, the            *)
(* WasmVerifier (new, verify, verify_json, info), the SHA3-256 hex digest  *)
(* helper and the wall clock it reads.                                     *)
(*                                                                         *)
(* Strings are sequences of UTF-8 bytes, byte slices are sequences of      *)
(* bytes, and a u64 is four 16-bit limbs, least significant first, so that *)
(* the full 64-bit range is represented exactly.                           *)
(***************************************************************************)
EXTENDS Integers, Sequences, FiniteSets, TLC

----------------------------------------------------------------------------
(* u64 arithmetic on 16-bit limbs *)

LimbBase == 2 ^ 16

Limbs == 1..4

\* the u64 with the given limbs, most significant first
U64(l3, l2, l1, l0) == <<l0, l1, l2, l3>>

\* the u64 of a number below 2^31
FromInt(n) == <<n % LimbBase, n \div LimbBase, 0, 0>>

Zero == FromInt(0)

U64Max == U64(LimbBase - 1, LimbBase - 1, LimbBase - 1, LimbBase - 1)

\* a < b on u64
Lt(a, b) ==
    \E k \in Limbs :
        /\ a[k] < b[k]
        /\ \A j \in Limbs : j > k => a[j] = b[j]

Gt(a, b) == Lt(b, a)

Leq(a, b) == ~Lt(b, a)

\* borrow out of limb k of a - b
RECURSIVE Borrow(_, _, _)
Borrow(a, b, k) ==
    IF k = 0 THEN 0
    ELSE IF a[k] - b[k] - Borrow(a, b, k - 1) < 0 THEN 1 ELSE 0

\* u64::wrapping_sub: a - b modulo 2^64
wrapping_sub(a, b) ==
    [k \in Limbs |-> (a[k] - b[k] - Borrow(a, b, k - 1)) % LimbBase]

\* the subtraction without saturation: a - b wraps around below zero
MutWrappingSub(a, b) == wrapping_sub(a, b)

\* u64::saturating_sub: a - b, or 0 when b > a
saturating_sub(a, b) ==
    IF Lt(a, b) THEN Zero ELSE wrapping_sub(a, b)

\* carry out of limb k of a + b
RECURSIVE Carry(_, _, _)
Carry(a, b, k) ==
    IF k = 0 THEN 0
    ELSE IF a[k] + b[k] + Carry(a, b, k - 1) >= LimbBase THEN 1 ELSE 0

\* a + b modulo 2^64
wrapping_add(a, b) ==
    [k \in Limbs |-> (a[k] + b[k] + Carry(a, b, k - 1)) % LimbBase]

\* a + b does not fit 64 bits
AddOverflows(a, b) == Carry(a, b, 4) = 1

----------------------------------------------------------------------------
(* strings and bytes *)

Bytes == 0..255

\* "0x"
Prefix0x == <<48, 120>>

\* the lowercase hex digit of a nibble, as the {:02x} format writes it
HexDigit(n) == IF n < 10 THEN 48 + n ELSE 87 + n

\* hex::encode: two lowercase hex digits per byte
encode(bytes) ==
    [k \in 1..(2 * Len(bytes)) |->
        IF k % 2 = 1 THEN HexDigit(bytes[(k + 1) \div 2] \div 16)
                     ELSE HexDigit(bytes[k \div 2] % 16)]

\* the digest size of SHA3-256, in bytes
DigestLen == 32

\* Sha3_256 over the whole input.  The permutation itself is outside the
\* repository; it is modelled as a fixed-length function that is injective
\* on inputs shorter than the digest (the collision resistance the verifier
\* relies on) and is not the identity: byte 1 mixes the length, byte k + 1
\* mixes input byte k, the rest is padding.
Sha3_256(data) ==
    [k \in 1..DigestLen |->
        IF k = 1 THEN (Len(data) * 167 + 13) % 256
        ELSE IF k - 1 <= Len(data) THEN (data[k - 1] * 167 + 31 * k + 13) % 256
        ELSE (31 * k + 13) % 256]

\* the hasher is never fed the data: every input gets the digest of nothing
MutHashNoUpdate(data) == Prefix0x \o encode(Sha3_256(<<>>))

\* WasmVerifier::hash_bytes: "0x" followed by the hex of the digest
hash_bytes(data) == Prefix0x \o encode(Sha3_256(data))

\* the exported hash_data utility: the same digest string
hash_data(data) == Prefix0x \o encode(Sha3_256(data))

\* str::is_char_boundary: index 0, the end, or a byte that is not a
\* UTF-8 continuation byte (10xxxxxx)
is_char_boundary(s, idx) ==
    \/ idx = 0
    \/ idx = Len(s)
    \/ idx < Len(s) /\ ~(s[idx + 1] >= 128 /\ s[idx + 1] < 192)

----------------------------------------------------------------------------
(* ProofData and its JSON form *)

\* ProofData::new: the six fields, as given
ProofData(model_hash, proof_hash, input_hash, output_hash, timestamp, verified) ==
    [model_hash |-> model_hash, proof_hash |-> proof_hash,
     input_hash |-> input_hash, output_hash |-> output_hash,
     timestamp |-> timestamp, verified |-> verified]

FieldNames ==
    {"model_hash", "proof_hash", "input_hash", "output_hash", "timestamp", "verified"}

StringFields == {"model_hash", "proof_hash", "input_hash", "output_hash"}

\* A JSON text is modelled after lexing, as its sequence of tokens.  Values
\* are scalars: a string (its bytes), a non-negative integer that fits u64
\* (its limbs), a negative integer, a boolean, or a bare word that is no
\* JSON value at all.
Tok(t, k, s, n, b) == [n |-> n, b |-> b, k |-> k, s |-> s, t |-> t]

TPunct(p) == Tok(p, "", <<>>, Zero, FALSE)
TKey(name) == Tok("key", name, <<>>, Zero, FALSE)
TStr(bytes) == Tok("str", "", bytes, Zero, FALSE)
TNum(n) == Tok("num", "", <<>>, n, FALSE)
TNeg(n) == Tok("neg", "", <<>>, n, FALSE)
TBool(b) == Tok("bool", "", <<>>, Zero, b)
TWord(w) == Tok("word", w, <<>>, Zero, FALSE)

\* the kinds of token that are JSON scalars
ValueKinds == {"str", "num", "neg", "bool"}

IsValue(tok) == tok.t \in ValueKinds

\* the value a field of ProofData takes from a token of the right type
TypeOk(name, tok) ==
    IF name \in StringFields THEN tok.t = "str"
    ELSE IF name = "timestamp" THEN tok.t = "num"
    ELSE tok.t = "bool"

ParseOk(rec) == [rec |-> rec, ok |-> TRUE, err |-> ""]

NoRecord == ProofData(<<>>, <<>>, <<>>, <<>>, Zero, FALSE)

ParseErr(e) == [rec |-> NoRecord, ok |-> FALSE, err |-> e]

Put(rec, name, tok) ==
    IF name \in StringFields THEN [rec EXCEPT ![name] = tok.s]
    ELSE IF name = "timestamp" THEN [rec EXCEPT ![name] = tok.n]
    ELSE [rec EXCEPT ![name] = tok.b]

\* the closing brace: every field must have been seen, and from_str
\* rejects anything after the value
FinishMap(toks, pos, has, rec) ==
    IF has # FieldNames THEN ParseErr("missing field")
    ELSE IF pos # Len(toks) THEN ParseErr("trailing characters")
    ELSE ParseOk(rec)

\* the derived Deserialize of ProofData over a JSON object: fields in any
\* order, unknown fields skipped, a repeated field refused
RECURSIVE ParseMap(_, _, _, _, _)
ParseMap(toks, pos, st, has, rec) ==
    IF pos > Len(toks) THEN ParseErr("EOF while parsing an object")
    ELSE IF st = "comma_or_end" THEN
        IF toks[pos].t = "}" THEN FinishMap(toks, pos, has, rec)
        ELSE IF toks[pos].t = "," THEN ParseMap(toks, pos + 1, "key", has, rec)
        ELSE ParseErr("expected comma or closing brace")
    ELSE IF toks[pos].t = "}" /\ st = "key_or_end" THEN FinishMap(toks, pos, has, rec)
    ELSE IF toks[pos].t # "key" THEN ParseErr("key must be a string")
    ELSE IF pos + 1 > Len(toks) THEN ParseErr("EOF while parsing an object")
    ELSE IF toks[pos + 1].t # ":" THEN ParseErr("expected colon")
    ELSE IF pos + 2 > Len(toks) THEN ParseErr("EOF while parsing a value")
    ELSE IF toks[pos].k \notin FieldNames THEN
        IF IsValue(toks[pos + 2])
        THEN ParseMap(toks, pos + 3, "comma_or_end", has, rec)
        ELSE ParseErr("expected value")
    ELSE IF toks[pos].k \in has THEN ParseErr("duplicate field")
    ELSE IF ~IsValue(toks[pos + 2]) THEN ParseErr("expected value")
    ELSE IF toks[pos].k = "timestamp" /\ toks[pos + 2].t = "neg" THEN ParseErr("invalid value")
    ELSE IF ~TypeOk(toks[pos].k, toks[pos + 2]) THEN ParseErr("invalid type")
    ELSE ParseMap(toks, pos + 3, "comma_or_end", has \cup {toks[pos].k},
                  Put(rec, toks[pos].k, toks[pos + 2]))

FieldOrder ==
    <<"model_hash", "proof_hash", "input_hash", "output_hash", "timestamp", "verified">>

\* the derived Deserialize over a JSON array: the six fields in declaration
\* order, no more and no fewer
ParseSeq(toks) ==
    IF Len(toks) < 13 THEN ParseErr("invalid length")
    ELSE IF \E k \in 1..6 : ~IsValue(toks[2 * k]) THEN ParseErr("expected value")
    ELSE IF \E k \in 1..5 : toks[2 * k + 1].t # "," THEN ParseErr("expected comma or closing bracket")
    ELSE IF toks[10].t = "neg" THEN ParseErr("invalid value")
    ELSE IF \E k \in 1..6 : ~TypeOk(FieldOrder[k], toks[2 * k]) THEN ParseErr("invalid type")
    ELSE IF toks[13].t # "]" \/ Len(toks) > 13 THEN ParseErr("trailing characters")
    ELSE ParseOk(ProofData(toks[2].s, toks[4].s, toks[6].s, toks[8].s,
                           toks[10].n, toks[12].b))

\* serde_json::from_str::<ProofData>
from_str(toks) ==
    IF Len(toks) = 0 THEN ParseErr("EOF while parsing a value")
    ELSE IF toks[1].t = "{" THEN ParseMap(toks, 2, "key_or_end", {}, NoRecord)
    ELSE IF toks[1].t = "[" THEN ParseSeq(toks)
    ELSE IF IsValue(toks[1]) THEN ParseErr("invalid type")
    ELSE ParseErr("expected value")

Member(name, tok) == <<TKey(name), TPunct(":"), tok>>

\* the derived Serialize of ProofData: an object, fields in declaration order
to_string(rec) ==
    <<TPunct("{")>>
    \o Member("model_hash", TStr(rec.model_hash)) \o <<TPunct(",")>>
    \o Member("proof_hash", TStr(rec.proof_hash)) \o <<TPunct(",")>>
    \o Member("input_hash", TStr(rec.input_hash)) \o <<TPunct(",")>>
    \o Member("output_hash", TStr(rec.output_hash)) \o <<TPunct(",")>>
    \o Member("timestamp", TNum(rec.timestamp)) \o <<TPunct(",")>>
    \o Member("verified", TBool(rec.verified))
    \o <<TPunct("}")>>

----------------------------------------------------------------------------
(* the inputs the operations are called with *)

\* "0x1234567890abcdef", the model hash of test_verifier
HashTest == <<48, 120, 49, 50, 51, 52, 53, 54, 55, 56, 57, 48, 97, 98, 99, 100, 101, 102>>

\* another model's hash, in digest format (66 characters)
HashDigest == hash_data(<<109>>)

\* "0xabc": shorter than 16 bytes
HashShort == <<48, 120, 97, 98, 99>>

\* the empty string
HashEmpty == <<>>

\* fifteen ASCII characters followed by a two-byte character, so that byte
\* index 16 falls inside the character
HashMulti == <<48, 120, 49, 50, 51, 52, 53, 54, 55, 56, 57, 48, 97, 98, 99, 195, 169>>

\* fourteen ASCII characters followed by a two-byte character: sixteen
\* bytes, and byte index 16 is the end of the string
HashSixteen == <<48, 120, 49, 50, 51, 52, 53, 54, 55, 56, 57, 48, 97, 98, 195, 169>>

ModelHashes == {HashTest, HashShort, HashEmpty, HashMulti, HashSixteen}

\* the model hashes records are made for
SomeModelHashes == {HashTest, HashEmpty}

\* "0xproof"
ProofHash == <<48, 120, 112, 114, 111, 111, 102>>

\* the longest byte slice passed as input or output
MaxLen == 2

ByteVals == {255}

RECURSIVE SeqsUpTo(_)
SeqsUpTo(n) ==
    IF n = 0 THEN {<<>>}
    ELSE SeqsUpTo(n - 1)
         \cup {Append(s, b) : s \in {q \in SeqsUpTo(n - 1) : Len(q) = n - 1}, b \in ByteVals}

ByteSeqs == SeqsUpTo(MaxLen)

\* the one-hour bound of the freshness check, in milliseconds
MaxAgeMs == 3600000

\* a value Date::now() returns: milliseconds since the epoch, negative
\* before it
Date(neg, mag) == [neg |-> neg, mag |-> mag]

StampBase == FromInt(1000)

ClockVals ==
    { Date(TRUE, FromInt(1)),
      Date(FALSE, FromInt(999)),
      Date(FALSE, StampBase),
      Date(FALSE, wrapping_add(StampBase, FromInt(MaxAgeMs))),
      Date(FALSE, wrapping_add(StampBase, FromInt(MaxAgeMs + 1))),
      Date(FALSE, wrapping_add(StampBase, U64(0, 1, 0, 0))) }

\* d1 < d2 as dates
DateLt(d1, d2) ==
    IF d1.neg THEN ~d2.neg \/ Lt(d2.mag, d1.mag)
    ELSE ~d2.neg /\ Lt(d1.mag, d2.mag)

Timestamps == {Zero, StampBase, U64Max}

\* record fields that are digests of some bytes, and one that is not:
\* the hex without its prefix
InputHashes == {hash_data(<<>>), hash_data(<<255>>), encode(Sha3_256(<<>>))}

OutputHashes == {hash_data(<<255>>), hash_data(<<>>)}

Records ==
    { ProofData(m, ProofHash, ih, oh, ts, vf) :
        m \in SomeModelHashes, ih \in InputHashes,
        oh \in OutputHashes, ts \in Timestamps, vf \in BOOLEAN }

\* the record of test_verifier's shape, for this model, these bytes, this time
Fresh(m, i, o, ts) == ProofData(m, ProofHash, hash_data(i), hash_data(o), ts, TRUE)

GoodRecord == Fresh(HashTest, <<>>, <<255>>, StampBase)

RemoveAt(s, from, to) == SubSeq(s, 1, from - 1) \o SubSeq(s, to + 1, Len(s))

\* JSON texts: records as serde writes them, the same with its members in
\* another order or with an unknown member, the array form, and texts that
\* are not a ProofData: "{not json", the empty text, a missing member, a
\* repeated member, a negative timestamp, a string for the flag, and text
\* after the closing brace
JsonDocs ==
    { to_string(GoodRecord),
      to_string([GoodRecord EXCEPT !.verified = FALSE]),
      to_string([GoodRecord EXCEPT !.model_hash = HashDigest]),
      to_string([GoodRecord EXCEPT !.timestamp = U64Max]),
      SubSeq(to_string(GoodRecord), 1, 1) \o Member("verified", TBool(TRUE))
        \o <<TPunct(",")>> \o SubSeq(to_string(GoodRecord), 2, 20) \o <<TPunct("}")>>,
      SubSeq(to_string(GoodRecord), 1, 24)
        \o <<TPunct(",")>> \o Member("note", TNum(Zero)) \o <<TPunct("}")>>,
      <<TPunct("["), TStr(HashTest), TPunct(","), TStr(ProofHash), TPunct(","),
        TStr(hash_data(<<>>)), TPunct(","), TStr(hash_data(<<255>>)), TPunct(","),
        TNum(StampBase), TPunct(","), TBool(TRUE), TPunct("]")>>,
      <<TPunct("{"), TWord("not"), TWord("json")>>,
      <<>>,
      RemoveAt(to_string(GoodRecord), 21, 24),
      SubSeq(to_string(GoodRecord), 1, 24)
        \o <<TPunct(",")>> \o Member("verified", TBool(TRUE)) \o <<TPunct("}")>>,
      [to_string(GoodRecord) EXCEPT ![20] = TNeg(FromInt(1))],
      [to_string(GoodRecord) EXCEPT ![24] = TStr(<<116>>)],
      to_string(GoodRecord) \o <<TPunct("}")>> }

\* the input bytes the record's input hash is of, and other bytes
SomeInputs == {<<>>, <<255>>}

----------------------------------------------------------------------------
(* the state *)

VerifierIds == {"va", "vb"}

Callers == {"c1", "c2"}

VARIABLES
    verifiers,  \* each WasmVerifier: whether constructed, and its model_hash
    clock,      \* what Date::now() returns now
    frames,     \* each caller's call in progress: arguments, position, result
    prev        \* an earlier completed verify call a caller kept, for replay

vars == <<verifiers, clock, frames, prev>>

Unbound == [model_hash |-> <<>>, bound |-> FALSE]

NoRet == [kind |-> "none", val |-> FALSE, str |-> <<>>]

\* Ok(b)
Ok(b) == [kind |-> "ok", val |-> b, str |-> <<>>]

IdleFrame ==
    [rec |-> NoRecord, pc |-> "idle", op |-> "none", v |-> "va", inp |-> <<>>,
     out |-> <<>>, doc |-> <<>>, timed |-> FALSE, now |-> Date(FALSE, Zero),
     ret |-> NoRet]

NoPrev ==
    [rec |-> NoRecord, val |-> FALSE, v |-> "va", inp |-> <<>>, out |-> <<>>,
     now |-> Date(FALSE, Zero), set |-> FALSE]

Init ==
    /\ verifiers = [v \in VerifierIds |-> Unbound]
    /\ clock \in ClockVals
    /\ frames = [c \in Callers |-> IdleFrame]
    /\ prev = NoPrev

----------------------------------------------------------------------------
(* the checks of verify, in the order of the code *)

\* the model binding check is skipped
MutModelUnchecked(self_hash, proof_data) == TRUE

\* check 1: the proof is for this verifier's model
ModelBound(self_hash, proof_data) == proof_data.model_hash = self_hash

\* check 2: the input bytes hash to the recorded input hash
InputMatches(proof_data, input_bytes) ==
    hash_bytes(input_bytes) = proof_data.input_hash

\* the output hash check is skipped
MutOutputUnchecked(proof_data, output_bytes) == TRUE

\* check 3: the output bytes hash to the recorded output hash
OutputMatches(proof_data, output_bytes) ==
    hash_bytes(output_bytes) = proof_data.output_hash

\* Date::now() as u64: the cast saturates, so a negative date becomes 0
current_time(date) == IF date.neg THEN Zero ELSE date.mag

\* the age is kept in 32 bits: it wraps around every 2^32 ms
MutAge32(date, proof_data) ==
    [k \in Limbs |->
        IF k <= 2
        THEN saturating_sub(current_time(date), proof_data.timestamp)[k]
        ELSE 0]

\* check 4: the age of the proof
age_ms(date, proof_data) ==
    saturating_sub(current_time(date), proof_data.timestamp)

\* the bound excludes the hour itself: age >= 3,600,000 is refused
MutTooOldInclusive(age) == ~Lt(age, FromInt(MaxAgeMs))

\* the age check: older than one hour
TooOld(age) == Gt(age, FromInt(MaxAgeMs))

\* the flag is not looked at
MutFlagIgnored(proof_data) == TRUE

\* check 5: the flag set at proof generation
FlagSet(proof_data) == proof_data.verified

Done(f, ret) == [f EXCEPT !.pc = "done", !.ret = ret]

----------------------------------------------------------------------------
(* the operations *)

\* WasmVerifier::new
New(v, model_hash) ==
    /\ ~verifiers[v].bound
    /\ verifiers' = [verifiers EXCEPT ![v] = [model_hash |-> model_hash, bound |-> TRUE]]
    /\ UNCHANGED <<clock, frames, prev>>

\* the wall clock moves, forwards or back
Tick(d) ==
    /\ d # clock
    /\ clock' = d
    /\ UNCHANGED <<verifiers, frames, prev>>

\* the wall clock moves forwards
TickForward(d) ==
    /\ DateLt(clock, d)
    /\ clock' = d
    /\ UNCHANGED <<verifiers, frames, prev>>

\* a caller enters verify
CallVerify(c, v, proof_data, input_bytes, output_bytes) ==
    /\ frames[c].pc = "idle"
    /\ verifiers[v].bound
    /\ frames' = [frames EXCEPT ![c] =
            [IdleFrame EXCEPT !.pc = "binding", !.op = "verify", !.v = v,
                              !.rec = proof_data, !.inp = input_bytes,
                              !.out = output_bytes]]
    /\ UNCHANGED <<verifiers, clock, prev>>

\* a text that does not parse is reported as an untrusted proof
MutParseFailureAsFalse(e) == Ok(FALSE)

\* what verify_json returns when the text does not parse
ParseFailure(e) ==
    [kind |-> "err", val |-> FALSE, str |-> <<"Failed to parse proof JSON: ", e>>]

\* a caller enters verify_json: the text is parsed, and either the error is
\* returned or the parsed record goes to verify
CallVerifyJson(c, v, proof_json, input_bytes, output_bytes) ==
    /\ frames[c].pc = "idle"
    /\ verifiers[v].bound
    /\ LET parsed == from_str(proof_json)
           f == [IdleFrame EXCEPT !.op = "verify_json", !.v = v, !.doc = proof_json,
                                  !.inp = input_bytes, !.out = output_bytes]
       IN  frames' = [frames EXCEPT ![c] =
                IF parsed.ok
                THEN [f EXCEPT !.pc = "binding", !.rec = parsed.rec]
                ELSE Done(f, ParseFailure(parsed.err))]
    /\ UNCHANGED <<verifiers, clock, prev>>

\* the verifier adopts the model of the last record it was shown
MutRebindOnMismatch(c) ==
    /\ frames[c].pc = "binding"
    /\ frames' = [frames EXCEPT ![c] =
            IF frames[c].rec.model_hash = verifiers[frames[c].v].model_hash
            THEN [@ EXCEPT !.pc = "input"]
            ELSE Done(@, Ok(FALSE))]
    /\ verifiers' = [verifiers EXCEPT ![frames[c].v].model_hash = frames[c].rec.model_hash]
    /\ UNCHANGED <<clock, prev>>

\* check 1, or the early return
VerifyModelBinding(c) ==
    /\ frames[c].pc = "binding"
    /\ frames' = [frames EXCEPT ![c] =
            IF ModelBound(verifiers[frames[c].v].model_hash, frames[c].rec)
            THEN [@ EXCEPT !.pc = "input"]
            ELSE Done(@, Ok(FALSE))]
    /\ UNCHANGED <<verifiers, clock, prev>>

VerifyInputHash(c) ==
    /\ frames[c].pc = "input"
    /\ frames' = [frames EXCEPT ![c] =
            IF InputMatches(frames[c].rec, frames[c].inp)
            THEN [@ EXCEPT !.pc = "output"]
            ELSE Done(@, Ok(FALSE))]
    /\ UNCHANGED <<verifiers, clock, prev>>

VerifyOutputHash(c) ==
    /\ frames[c].pc = "output"
    /\ frames' = [frames EXCEPT ![c] =
            IF OutputMatches(frames[c].rec, frames[c].out)
            THEN [@ EXCEPT !.pc = "time"]
            ELSE Done(@, Ok(FALSE))]
    /\ UNCHANGED <<verifiers, clock, prev>>

\* the one read of the clock
VerifyTimestamp(c) ==
    /\ frames[c].pc = "time"
    /\ frames' = [frames EXCEPT ![c] =
            IF TooOld(age_ms(clock, frames[c].rec))
            THEN Done([@ EXCEPT !.timed = TRUE, !.now = clock], Ok(FALSE))
            ELSE [@ EXCEPT !.pc = "flag", !.timed = TRUE, !.now = clock]]
    /\ UNCHANGED <<verifiers, clock, prev>>

VerifyFlag(c) ==
    /\ frames[c].pc = "flag"
    /\ frames' = [frames EXCEPT ![c] =
            IF FlagSet(frames[c].rec) THEN Done(@, Ok(TRUE)) ELSE Done(@, Ok(FALSE))]
    /\ UNCHANGED <<verifiers, clock, prev>>

\* the slice &self.model_hash[..16] is in range and ends on a character
\* boundary; otherwise the slice expression panics
CanSlice(s, n) == n <= Len(s) /\ is_char_boundary(s, n)

\* the length of the prefix info() shows
InfoPrefixLen == 16

\* WasmVerifier::info
Info(c, v) ==
    /\ frames[c].pc = "idle"
    /\ verifiers[v].bound
    /\ LET h == verifiers[v].model_hash
           f == [IdleFrame EXCEPT !.op = "info", !.v = v]
       IN  frames' = [frames EXCEPT ![c] =
                IF CanSlice(h, InfoPrefixLen)
                THEN Done(f, [kind |-> "ok", val |-> FALSE,
                              str |-> <<"WASM Verifier for model: ",
                                        SubSeq(h, 1, InfoPrefixLen),
                                        "...\nVerifies: Model binding, I/O integrity, Proof validity, Timestamp">>])
                ELSE Done(f, [kind |-> "panic", val |-> FALSE, str |-> <<>>])]
    /\ UNCHANGED <<verifiers, clock, prev>>

\* the caller takes the result
Return(c) ==
    /\ frames[c].pc = "done"
    /\ frames' = [frames EXCEPT ![c] = IdleFrame]
    /\ UNCHANGED <<verifiers, clock, prev>>

\* the caller takes the result of verify and keeps the call, to make it again
ReturnKeep(c) ==
    /\ frames[c].pc = "done"
    /\ frames[c].op = "verify"
    /\ prev' = [rec |-> frames[c].rec, val |-> frames[c].ret.val, v |-> frames[c].v,
                inp |-> frames[c].inp, out |-> frames[c].out,
                now |-> IF frames[c].timed THEN frames[c].now ELSE clock,
                set |-> TRUE]
    /\ frames' = [frames EXCEPT ![c] = IdleFrame]
    /\ UNCHANGED <<verifiers, clock>>

\* the caller makes the kept call again
Replay(c) ==
    /\ prev.set
    /\ CallVerify(c, prev.v, prev.rec, prev.inp, prev.out)

----------------------------------------------------------------------------
(* one caller, one verifier, the wall clock free to move either way *)

Next ==
    \/ \E h \in ModelHashes : New("va", h)
    \/ \E d \in ClockVals : Tick(d)
    \/ \E r \in Records, i \in ByteSeqs, o \in ByteSeqs : CallVerify("c1", "va", r, i, o)
    \/ \E j \in JsonDocs, i \in SomeInputs : CallVerifyJson("c1", "va", j, i, <<255>>)
    \/ VerifyModelBinding("c1")
    \/ VerifyInputHash("c1")
    \/ VerifyOutputHash("c1")
    \/ VerifyTimestamp("c1")
    \/ VerifyFlag("c1")
    \/ Info("c1", "va")
    \/ Return("c1")

Spec == Init /\ [][Next]_vars

----------------------------------------------------------------------------
(* two callers, two verifiers: calls interleave step by step *)

ConcRecords ==
    { GoodRecord,
      [GoodRecord EXCEPT !.verified = FALSE],
      [GoodRecord EXCEPT !.model_hash = HashEmpty],
      [GoodRecord EXCEPT !.timestamp = U64Max] }

ConcClock ==
    { Date(FALSE, StampBase),
      Date(FALSE, wrapping_add(StampBase, FromInt(MaxAgeMs + 1))) }

\* the texts passed to verify_json: one that decodes and "{not json"
ConcDocs == {to_string(GoodRecord), <<TPunct("{"), TWord("not"), TWord("json")>>}

NextConc ==
    \/ \E v \in VerifierIds, h \in SomeModelHashes : New(v, h)
    \/ \E d \in ConcClock : Tick(d)
    \/ \E c \in Callers, v \in VerifierIds, r \in ConcRecords, i \in SomeInputs :
            CallVerify(c, v, r, i, <<255>>)
    \/ \E c \in Callers, v \in VerifierIds, j \in ConcDocs :
            CallVerifyJson(c, v, j, <<>>, <<255>>)
    \/ \E c \in Callers : VerifyModelBinding(c)
    \/ \E c \in Callers : VerifyInputHash(c)
    \/ \E c \in Callers : VerifyOutputHash(c)
    \/ \E c \in Callers : VerifyTimestamp(c)
    \/ \E c \in Callers : VerifyFlag(c)
    \/ \E c \in Callers : Return(c)

SpecConc == Init /\ [][NextConc]_vars

----------------------------------------------------------------------------
(* one caller making the same verify call again and again while the clock *)
(* only moves forwards                                                    *)

ReplayRecords ==
    { ProofData(HashTest, ProofHash, hash_data(<<>>), hash_data(<<255>>), ts, vf) :
        ts \in Timestamps, vf \in BOOLEAN }

NextReplay ==
    \/ \E h \in SomeModelHashes : New("va", h)
    \/ \E d \in ClockVals : TickForward(d)
    \/ /\ ~prev.set
       /\ \E r \in ReplayRecords, i \in ByteSeqs : CallVerify("c1", "va", r, i, <<255>>)
    \/ Replay("c1")
    \/ VerifyModelBinding("c1")
    \/ VerifyInputHash("c1")
    \/ VerifyOutputHash("c1")
    \/ VerifyTimestamp("c1")
    \/ VerifyFlag("c1")
    \/ Return("c1")
    \/ ReturnKeep("c1")

SpecReplay == Init /\ [][NextReplay]_vars

----------------------------------------------------------------------------
(* the vocabulary of the properties *)

\* the completed calls of an operation
Completed(op) == {c \in Callers : frames[c].pc = "done" /\ frames[c].op = op}

\* the model hash the verifier of caller c's call is bound to
BoundHash(c) == verifiers[frames[c].v].model_hash

\* now - ts <= 3,600,000 over the integers, now being a date and ts a u64
AgeWithinHour(now, ts) ==
    \/ now.neg
    \/ AddOverflows(ts, FromInt(MaxAgeMs))
    \/ Leq(now.mag, wrapping_add(ts, FromInt(MaxAgeMs)))

\* the record names model M and the digests of bytes i and o
ThreeMatch(M, r, i, o) ==
    /\ r.model_hash = M
    /\ hash_data(i) = r.input_hash
    /\ hash_data(o) = r.output_hash

\* the five conditions of verify at clock value now
AllFive(M, r, i, o, now) ==
    /\ ThreeMatch(M, r, i, o)
    /\ AgeWithinHour(now, r.timestamp)
    /\ r.verified = TRUE

\* the call of frame f on a verifier bound to M returned the boolean the
\* five conditions give at the clock value it read; a call that returned
\* before reading the clock returned false, one of the first three
\* conditions failing
ReturnedAsSpecified(f, M) ==
    /\ f.ret.kind = "ok"
    /\ IF f.timed
       THEN f.ret.val = AllFive(M, f.rec, f.inp, f.out, f.now)
       ELSE ~f.ret.val /\ ~ThreeMatch(M, f.rec, f.inp, f.out)

\* date d is later than max(t, ts) + 3,600,000
PastWindow(d, t, ts) ==
    LET m == IF t.neg \/ Lt(t.mag, ts) THEN ts ELSE t.mag
    IN  /\ ~d.neg
        /\ ~AddOverflows(m, FromInt(MaxAgeMs))
        /\ Gt(d.mag, wrapping_add(m, FromInt(MaxAgeMs)))

NotJson == <<TPunct("{"), TWord("not"), TWord("json")>>

----------------------------------------------------------------------------
(* the properties *)

\* C1: a completed verify call returned Ok(b), never an error, with b true
\* exactly when the five conditions hold at the clock value the call read
\* (model hash, input hash, output hash, age at most one hour, flag); and a
\* record built from the bound hash, the digests of the bytes passed, the
\* current time and verified = true was accepted.
C1_VerifyIffAllFive ==
    \A c \in Completed("verify") :
        /\ ReturnedAsSpecified(frames[c], BoundHash(c))
        /\ ( /\ frames[c].rec = Fresh(BoundHash(c), frames[c].inp, frames[c].out,
                                      frames[c].rec.timestamp)
             /\ frames[c].timed
             /\ frames[c].now = Date(FALSE, frames[c].rec.timestamp)
             => frames[c].ret.val )

\* the scenario of test_verifier: the record made now is accepted
C1_Witness ==
    \E c \in Completed("verify") :
        /\ frames[c].rec = GoodRecord
        /\ BoundHash(c) = HashTest
        /\ frames[c].now = Date(FALSE, GoodRecord.timestamp)
        /\ frames[c].ret = Ok(TRUE)

\* C2: a completed verify call whose record names another model than the
\* verifier's returned false, whatever the other fields and the clock.
C2_ModelBinding ==
    \A c \in Completed("verify") :
        frames[c].rec.model_hash # BoundHash(c) => frames[c].ret = Ok(FALSE)

\* a record consistent in every other respect, for another model, rejected
C2_Witness ==
    \E c \in Completed("verify") :
        /\ BoundHash(c) = HashTest
        /\ frames[c].rec = Fresh(HashEmpty, frames[c].inp, frames[c].out, StampBase)
        /\ clock = Date(FALSE, StampBase)
        /\ frames[c].ret = Ok(FALSE)

\* C3: a completed verify call whose record holds the digests of bytes i
\* and o, and that was passed other input bytes or other output bytes,
\* returned false.
C3_Integrity ==
    \A c \in Completed("verify") :
        \A i \in ByteSeqs, o \in ByteSeqs :
            ( /\ frames[c].rec.input_hash = hash_data(i)
              /\ frames[c].rec.output_hash = hash_data(o)
              /\ (frames[c].inp # i \/ frames[c].out # o) )
            => frames[c].ret = Ok(FALSE)

\* the right model, the right input, a fresh flagged record, but other
\* output bytes than the record's digest is of: rejected
C3_Witness ==
    \E c \in Completed("verify") :
        /\ BoundHash(c) = HashTest
        /\ frames[c].rec = GoodRecord
        /\ frames[c].inp = <<>>
        /\ frames[c].out = <<>>
        /\ clock = Date(FALSE, StampBase)
        /\ frames[c].ret = Ok(FALSE)

\* C4: a completed verify call whose record passes the model, input, output
\* and flag conditions returned true when the clock it read was exactly
\* 3,600,000 ms after the timestamp, and false at 3,600,001 ms.
C4_FreshnessBoundary ==
    \A c \in Completed("verify") :
        ( /\ ThreeMatch(BoundHash(c), frames[c].rec, frames[c].inp, frames[c].out)
          /\ frames[c].rec.verified
          /\ ~frames[c].now.neg )
        => /\ frames[c].timed
           /\ ( /\ ~AddOverflows(frames[c].rec.timestamp, FromInt(MaxAgeMs))
                /\ frames[c].now.mag =
                       wrapping_add(frames[c].rec.timestamp, FromInt(MaxAgeMs))
                => frames[c].ret = Ok(TRUE) )
           /\ ( /\ ~AddOverflows(frames[c].rec.timestamp, FromInt(MaxAgeMs + 1))
                /\ frames[c].now.mag =
                       wrapping_add(frames[c].rec.timestamp, FromInt(MaxAgeMs + 1))
                => frames[c].ret = Ok(FALSE) )

\* a record of age exactly one hour, accepted
C4_Witness ==
    \E c \in Completed("verify") :
        /\ frames[c].rec = GoodRecord
        /\ frames[c].timed
        /\ frames[c].now = Date(FALSE, wrapping_add(StampBase, FromInt(MaxAgeMs)))
        /\ frames[c].ret = Ok(TRUE)

\* C5: a completed verify call whose record passes the model, input, output
\* and age conditions but has verified = false returned false.
C5_ValidityFlag ==
    \A c \in Completed("verify") :
        ( /\ ThreeMatch(BoundHash(c), frames[c].rec, frames[c].inp, frames[c].out)
          /\ ~frames[c].rec.verified )
        => /\ frames[c].timed
           /\ frames[c].ret = Ok(FALSE)

\* a fresh record with matching hashes and verified = false, rejected at the
\* flag check
C5_Witness ==
    \E c \in Completed("verify") :
        /\ frames[c].rec = [GoodRecord EXCEPT !.verified = FALSE]
        /\ ThreeMatch(BoundHash(c), frames[c].rec, frames[c].inp, frames[c].out)
        /\ frames[c].timed
        /\ AgeWithinHour(frames[c].now, frames[c].rec.timestamp)
        /\ frames[c].ret = Ok(FALSE)

\* C6: a completed verify_json call on a text that does not decode into a
\* ProofData returned an error, not a boolean; on a text that decodes into
\* record r it returned what verify returns for r.  The text "{not json"
\* does not decode, and the text serde writes for r decodes into r.
C6_VerifyJson ==
    \A c \in Completed("verify_json") :
        /\ IF from_str(frames[c].doc).ok
           THEN /\ frames[c].rec = from_str(frames[c].doc).rec
                /\ ReturnedAsSpecified(frames[c], BoundHash(c))
           ELSE frames[c].ret.kind = "err"
        /\ frames[c].doc = NotJson => frames[c].ret.kind = "err"
        /\ \A r \in Records :
                frames[c].doc = to_string(r)
                => frames[c].rec = r /\ frames[c].ret.kind = "ok"

\* "{not json" passed to verify_json: a parse error
C6_Witness ==
    \E c \in Completed("verify_json") :
        /\ frames[c].doc = NotJson
        /\ frames[c].ret.kind = "err"

\* C8: a completed verify call that read a clock earlier than the record's
\* timestamp computed age 0, and returned true when the model, input,
\* output and flag conditions pass, up to the largest u64 timestamp.
C8_SaturatingAge ==
    \A c \in Completed("verify") :
        ( /\ frames[c].timed
          /\ (frames[c].now.neg \/ Lt(frames[c].now.mag, frames[c].rec.timestamp)) )
        => /\ age_ms(frames[c].now, frames[c].rec) = Zero
           /\ ( ThreeMatch(BoundHash(c), frames[c].rec, frames[c].inp, frames[c].out)
                /\ frames[c].rec.verified
                => frames[c].ret = Ok(TRUE) )

\* a record one millisecond in the future, accepted
C8_Witness ==
    \E c \in Completed("verify") :
        /\ frames[c].rec = GoodRecord
        /\ frames[c].timed
        /\ frames[c].now = Date(FALSE, FromInt(999))
        /\ frames[c].ret = Ok(TRUE)

\* C9: no public operation aborts: every call returns a value or a parse
\* error, whatever string the verifier was constructed from.
C9_NoPanic ==
    \A c \in Callers : frames[c].ret.kind # "panic"


\* a step leaves every constructed verifier's model hash as it was, leaves
\* the record and the arguments of every call in progress as they were,
\* changes the frame of at most one caller, and the clock value a call
\* keeps is the one the clock showed when the call read it
StatelessStep ==
    /\ \A v \in VerifierIds : verifiers[v].bound => verifiers'[v] = verifiers[v]
    /\ \A c \in Callers :
        frames[c].pc # "idle" /\ frames'[c].pc # "idle"
        => /\ frames'[c].op = frames[c].op
           /\ frames'[c].v = frames[c].v
           /\ frames'[c].rec = frames[c].rec
           /\ frames'[c].inp = frames[c].inp
           /\ frames'[c].out = frames[c].out
           /\ frames'[c].doc = frames[c].doc
           /\ (frames[c].timed => frames'[c].timed /\ frames'[c].now = frames[c].now)
           /\ (~frames[c].timed /\ frames'[c].timed => frames'[c].now = clock)
    /\ \A c \in Callers, d \in Callers :
        c # d /\ frames'[c] # frames[c] => frames'[d] = frames[d]

\* every completed verify or verify_json call that returned a boolean
\* returned the one its own arguments, its verifier's model hash and the
\* clock value it read give
ResultsPure ==
    \A c \in Completed("verify") \cup Completed("verify_json") :
        frames[c].ret.kind # "err" => ReturnedAsSpecified(frames[c], BoundHash(c))

\* C7: under any interleaving of the steps of verify and verify_json calls
\* of two callers on two verifiers and of clock changes, no step changes a
\* verifier's bound model hash or a record, and each call's result is the
\* function of its own arguments, its verifier's hash and the clock value
\* it read.
C7_Stateless == [][StatelessStep]_vars /\ []ResultsPure

\* two calls with the same arguments on the same verifier, both completed,
\* one accepted and one rejected, the clock having moved between their reads
C7_Witness ==
    /\ Completed("verify") = Callers
    /\ frames["c1"].v = frames["c2"].v
    /\ frames["c1"].rec = GoodRecord
    /\ frames["c2"].rec = GoodRecord
    /\ frames["c1"].inp = frames["c2"].inp
    /\ frames["c1"].now # frames["c2"].now
    /\ frames["c1"].ret = Ok(TRUE)
    /\ frames["c2"].ret = Ok(FALSE)

\* the kept call and the completed call are the same call made again
SameCall(f) ==
    /\ prev.set
    /\ f.v = prev.v
    /\ f.rec = prev.rec
    /\ f.inp = prev.inp
    /\ f.out = prev.out

\* C10: with a clock that does not go back, a verify call made again after
\* it returned false returns false; and made again at a clock value later
\* than max(t, timestamp) + 3,600,000, t being the clock value at which it
\* returned true, it returns false.
C10_RejectionPermanent ==
    \A c \in Completed("verify") :
        SameCall(frames[c])
        => /\ frames[c].ret.kind = "ok"
           /\ (~prev.val => ~frames[c].ret.val)
           /\ ( /\ prev.val
                /\ frames[c].timed
                /\ PastWindow(frames[c].now, prev.now, frames[c].rec.timestamp)
                => ~frames[c].ret.val )

\* a call accepted once and rejected when made again after the window
C10_Witness ==
    \E c \in Completed("verify") :
        /\ SameCall(frames[c])
        /\ prev.val
        /\ frames[c].timed
        /\ PastWindow(frames[c].now, prev.now, frames[c].rec.timestamp)
        /\ frames[c].ret = Ok(FALSE)

====
